---- MODULE Spec2Model ----
(***************************************************************************)
(* queuectl: a MongoDB-backed background job queue.                        *)
(*                                                                         *)
(* The model covers the jobs collection (models/job.js), the configs       *)
(* collection (models/config.js), the CLI commands that write to them      *)
(* (queuectl.js: enqueue, config set, dlq retry) and the worker engine     *)
(* (worker.js: loadConfig, fetchAndLockJob, executeJob, startWorker), the   *)
(* worker pool (queuectl.js: worker start, worker stop, the cluster master  *)
(* and its handlers) and the store being reachable or not.                 *)
(*                                                                         *)
(* Time is a global clock `now` counted in whole seconds: Date.now() and   *)
(* new Date() read it.  Every store operation (save, findOneAndUpdate,     *)
(* updateOne) is one atomic step on one document, as in MongoDB.           *)
(***************************************************************************)
EXTENDS Integers, FiniteSets, Sequences, TLC

\* ------------------------------------------------------------------ bounds
MaxTime == 2
MaxConfigSets == 1

\* The job ids clients use, and the worker processes of the pool.
JobIds == {"j1", "j2"}
Workers == {"w1", "w2"}
\* The job ids in use while the configuration changes (SpecConfig).
ConfigJobIds == {"j1"}

\* ------------------------------------------------- models/job.js (schema)
DefaultState == "pending"
DefaultAttempts == 0
DefaultMaxRetries == 3
DefaultPriority == 0
DefaultTimeout == 60000

\* The job documents a client passes to `enqueue` (the id is given apart).
\* Every field of the schema may be supplied: new Job(jobData) copies them.
JobSpecs ==
  { [command |-> "cmd"],
    [command |-> "cmd", priority |-> 10],
    [command |-> "cmd", max_retries |-> 1],
    [command |-> "cmd", max_retries |-> 2],
    [command |-> "cmd", max_retries |-> 0],
    [command |-> "cmd", run_at |-> 1],
    [command |-> "cmd", attempts |-> 1],
    [command |-> "cmd", state |-> "dead"] }

\* A schema field of a new document: the supplied value, else the default.
Field(spec, key, default) ==
  IF key \in DOMAIN spec THEN spec[key] ELSE default

\* ------------------------------------------------------ worker.js (config)
\* systemConfig as the module sets it before loadConfig runs.
DefaultConfig == [max_retries |-> 3, backoff_base |-> 2, job_timeout |-> 30000]

ConfigKeys == {"max_retries", "backoff_base"}

\* The values `config set` stores: JSON.parse of the argument, here integers
\* (parseInt(value, 10) of an integer Number is that integer).
ConfigValues(key) ==
  IF key = "max_retries" THEN {1, 2} ELSE {-1, 0, 1}

\* What `config set <key> abc` stores: JSON.parse throws on the argument and
\* the raw string is kept as the value. Written as an integer that is no
\* configuration value.
NotNumeric == -999

\* The processes that run `worker start`.
Starters == {"m1", "m2"}

VARIABLES
  jobs,          \* the jobs collection: job id -> document
  configs,       \* the configs collection: a set of <<key, value>>
  now,           \* the clock, in seconds
  pc,            \* per worker process: "none" (no process), "off" (forked,
                 \* before the loop), "loop", "busy", "sleep", "catch" (in the
                 \* catch block of executeJob), "crashed", "exited"
  job,           \* per worker: the document fetchAndLockJob returned
  systemConfig,  \* per worker: the process-wide systemConfig object
  seen,          \* history, per worker: the collection as its last fetch found it
  hist,          \* history, per job: executions resolved, attempts at entry
  nConfigSets,   \* number of `config set` commands run so far
  running,       \* per worker: the `running` flag of startWorker
  sig,           \* per worker: a SIGTERM sent to it and not yet delivered
  master,        \* the cluster master process: "down" or "up"
  masterSig,     \* a SIGTERM sent to the master and not yet delivered
  pidFile,       \* whether queuectl.pid exists
  workerCount,   \* --count of the `worker start` that made the pool
  respawned,     \* history, per worker: the process is a replacement
  stopPc,        \* the `worker stop` process: "idle" or "checked"
  starter,       \* per `worker start` process: "idle" (not run, or ended),
                 \* "checked" (past fs.existsSync, which found no file),
                 \* "master" (it wrote the file and is a cluster master)
  cli,           \* the last CLI command: name, argument, message printed
  storeUp        \* whether MongoDB can be reached

\* The state of the worker pool and of the CLI, and the state of the store link.
poolVars == <<sig, master, masterSig, pidFile, workerCount, respawned, stopPc, starter>>

vars == <<jobs, configs, now, pc, job, systemConfig, seen, hist, nConfigSets,
          running, poolVars, cli, storeUp>>

\* `job` when fetchAndLockJob returned null.
NoId == "none"
Null == [id |-> NoId, attempts |-> 0, max_retries |-> 0, timeout |-> 0, command |-> "",
         state |-> ""]

\* `cli` before any command has run.
NoCli == [cmd |-> "none", arg |-> [id |-> NoId], out |-> "", seq |-> 0]

Stored == DOMAIN jobs

\* The collections are empty and no process has touched them yet.
InitStore ==
  /\ jobs = <<>>
  /\ configs = {}
  /\ now = 0
  /\ job = [w \in Workers |-> Null]
  /\ systemConfig = [w \in Workers |-> DefaultConfig]
  /\ seen = [w \in Workers |-> <<>>]
  /\ hist = <<>>
  /\ nConfigSets = 0
  /\ running = [w \in Workers |-> FALSE]
  /\ sig = [w \in Workers |-> FALSE]
  /\ masterSig = FALSE
  /\ respawned = [w \in Workers |-> FALSE]
  /\ stopPc = "idle"
  /\ cli = NoCli
  /\ storeUp = TRUE

\* `worker start --count 2` has just forked its workers.
Init ==
  /\ InitStore
  /\ pc = [w \in Workers |-> "off"]
  /\ master = "up"
  /\ pidFile = TRUE
  /\ workerCount = Cardinality(Workers)
  /\ starter = [m \in Starters |-> IF m = "m1" THEN "master" ELSE "idle"]

\* The clock advances.
Tick ==
  /\ now < MaxTime
  /\ now' = now + 1
  /\ UNCHANGED <<jobs, configs, pc, job, systemConfig, seen, hist, nConfigSets>>
  /\ UNCHANGED <<running, poolVars, cli, storeUp>>

\* ------------------------------------------------------------ queuectl.js
\* new Job(jobData): the document with the schema defaults filled in.
NewJob(spec) ==
  [ command     |-> Field(spec, "command", ""),
    state       |-> Field(spec, "state", DefaultState),
    attempts    |-> Field(spec, "attempts", DefaultAttempts),
    max_retries |-> Field(spec, "max_retries", DefaultMaxRetries),
    priority    |-> Field(spec, "priority", DefaultPriority),
    run_at      |-> Field(spec, "run_at", now),
    timeout     |-> Field(spec, "timeout", DefaultTimeout),
    error       |-> Field(spec, "error", ""),
    created_at  |-> now ]

\* History: how the job entered the queue.
NewHist(spec) ==
  [ execs      |-> 0,
    attempts0  |-> Field(spec, "attempts", DefaultAttempts),
    state0     |-> Field(spec, "state", DefaultState),
    requeued   |-> FALSE,
    ownMax     |-> "max_retries" \in DOMAIN spec,
    ownTimeout |-> "timeout" \in DOMAIN spec ]

\* `enqueue <jobJson>` with an id no stored job has: new Job(jobData).save().
Enqueue(id, spec) ==
  /\ storeUp
  /\ id \notin Stored
  /\ jobs' = jobs @@ (id :> NewJob(spec))
  /\ hist' = hist @@ (id :> NewHist(spec))
  /\ UNCHANGED <<configs, now, pc, job, systemConfig, seen, nConfigSets>>
  /\ UNCHANGED <<running, poolVars, cli, storeUp>>

\* `config set <key> <value>`: Config.updateOne({key}, {value}, {upsert: true}).
ConfigSet(key, value) ==
  /\ storeUp
  /\ nConfigSets < MaxConfigSets
  /\ nConfigSets' = nConfigSets + 1
  /\ configs' = {c \in configs : c[1] # key} \cup {<<key, value>>}
  /\ UNCHANGED <<jobs, now, pc, job, systemConfig, seen, hist>>
  /\ UNCHANGED <<running, poolVars, cli, storeUp>>

\* `dlq retry <jobId>` on a job in the DLQ:
\* findOneAndUpdate({id, state: 'dead'}, {state: 'pending', attempts: 0, run_at: now}).
\* Mutant of the filter: the state condition dropped.
DlqMatchesAnyState(id) == id \in Stored

\* The filter { id: jobId, state: 'dead' }.
DlqMatches(id) == id \in Stored /\ jobs[id].state = "dead"

\* Mutant of the update: attempts left as it was.
RequeuedKeepingAttempts(doc) == [doc EXCEPT !.state = "pending", !.run_at = now]

\* The update { $set: { state: 'pending', attempts: 0, run_at: new Date() } }.
Requeued(doc) == [doc EXCEPT !.state = "pending", !.attempts = 0, !.run_at = now]

\* History: the job enters the queue anew.
RequeuedHist(h) ==
  [h EXCEPT !.execs = 0, !.attempts0 = 0, !.state0 = "pending", !.requeued = TRUE]

DlqRetry(id) ==
  /\ storeUp
  /\ DlqMatches(id)
  /\ jobs' = [jobs EXCEPT ![id] = Requeued(jobs[id])]
  /\ hist' = [hist EXCEPT ![id] = RequeuedHist(hist[id])]
  /\ UNCHANGED <<configs, now, pc, job, systemConfig, seen, nConfigSets>>
  /\ UNCHANGED <<running, poolVars, cli, storeUp>>

\* `cli` after a command has run: its name, its argument and the message it
\* printed; seq tells one run from the next.
Ran(cmd, arg, out) == [cmd |-> cmd, arg |-> arg, out |-> out, seq |-> 1 - cli.seq]

\* Mutants of the checks of enqueue: the command not checked; no unique index.
LacksId(jobData) == Field(jobData, "id", "") = ""

NeverDuplicateKey(id) == FALSE

\* `if (!jobData.id || !jobData.command)`: a missing or empty string is falsy.
LacksIdOrCommand(jobData) ==
  Field(jobData, "id", "") = "" \/ Field(jobData, "command", "") = ""

\* save() is rejected with code 11000 by the unique index on id.
DuplicateKey(id) == id \in Stored

\* `enqueue <jobJson>`, the whole command, with the message it prints.
EnqueueCmd(jobData) ==
  /\ storeUp
  /\ IF LacksIdOrCommand(jobData)
       THEN /\ cli' = Ran("enqueue", jobData, "InvalidSpec")
            /\ UNCHANGED <<jobs, hist>>
       ELSE IF DuplicateKey(jobData.id)
         THEN /\ cli' = Ran("enqueue", jobData, "DuplicateId")
              /\ UNCHANGED <<jobs, hist>>
         ELSE /\ jobs' = (jobData.id :> NewJob(jobData)) @@ jobs
              /\ hist' = (jobData.id :> NewHist(jobData)) @@ hist
              /\ cli' = Ran("enqueue", jobData, "Enqueued")
  /\ UNCHANGED <<configs, now, pc, job, systemConfig, seen, nConfigSets>>
  /\ UNCHANGED <<running, poolVars, storeUp>>

\* `dlq retry <jobId>`, the whole command, with the message it prints.
DlqRetryCmd(id) ==
  /\ storeUp
  /\ IF DlqMatches(id)
       THEN /\ jobs' = [jobs EXCEPT ![id] = Requeued(jobs[id])]
            /\ hist' = [hist EXCEPT ![id] = RequeuedHist(hist[id])]
            /\ cli' = Ran("dlq retry", [id |-> id], "Requeued")
       ELSE /\ cli' = Ran("dlq retry", [id |-> id], "NotFound")
            /\ UNCHANGED <<jobs, hist>>
  /\ UNCHANGED <<configs, now, pc, job, systemConfig, seen, nConfigSets>>
  /\ UNCHANGED <<running, poolVars, storeUp>>

\* -------------------------------------------------------------- worker.js
\* The Number that is not a number, written as an integer no computation of
\* the model yields.
NaN == -1000

\* parseInt(value, 10): an integer Number reads as itself, a string that does
\* not start with a digit or a sign and a digit reads as NaN.
parseInt(value) == IF value = NotNumeric THEN NaN ELSE value

\* Config.findOne({key}) followed by `if (doc) systemConfig[key] = parseInt(doc.value, 10)`.
Loaded(key, current) ==
  IF \E c \in configs : c[1] = key
    THEN parseInt((CHOOSE c \in configs : c[1] = key)[2])
    ELSE current

loadConfig(w) ==
  [ max_retries  |-> Loaded("max_retries", systemConfig[w].max_retries),
    backoff_base |-> Loaded("backoff_base", systemConfig[w].backoff_base),
    job_timeout  |-> Loaded("job_timeout", systemConfig[w].job_timeout) ]

\* startWorker up to the first test of `while (running)`.
StartWorker(w) ==
  /\ pc[w] = "off"
  /\ storeUp
  /\ systemConfig' = [systemConfig EXCEPT ![w] = loadConfig(w)]
  /\ running' = [running EXCEPT ![w] = TRUE]
  /\ pc' = [pc EXCEPT ![w] = "loop"]
  /\ UNCHANGED <<jobs, configs, now, job, seen, hist, nConfigSets>>
  /\ UNCHANGED <<poolVars, cli, storeUp>>

\* Mutants of the filter: one that also matches jobs in processing, one that
\* also matches dead jobs, one that drops the run_at condition.
EligibleOrProcessing(id) ==
  /\ jobs[id].state \in {"pending", "processing"}
  /\ jobs[id].run_at <= now

EligibleOrDead(id) ==
  /\ jobs[id].state \in {"pending", "dead"}
  /\ jobs[id].run_at <= now

EligibleIgnoringRunAt(id) ==
  jobs[id].state = "pending"

\* The filter of fetchAndLockJob: { state: 'pending', run_at: { $lte: new Date() } }.
Eligible(id) ==
  /\ jobs[id].state = "pending"
  /\ jobs[id].run_at <= now

\* Mutants of the sort: priority ascending; created_at descending.
SortsBeforePriorityAscending(a, b) ==
  \/ jobs[a].priority < jobs[b].priority
  \/ /\ jobs[a].priority = jobs[b].priority
     /\ jobs[a].created_at < jobs[b].created_at

SortsBeforeNewestFirst(a, b) ==
  \/ jobs[a].priority > jobs[b].priority
  \/ /\ jobs[a].priority = jobs[b].priority
     /\ jobs[a].created_at > jobs[b].created_at

\* The sort of fetchAndLockJob: { priority: -1, created_at: 1 }.
SortsBefore(a, b) ==
  \/ jobs[a].priority > jobs[b].priority
  \/ /\ jobs[a].priority = jobs[b].priority
     /\ jobs[a].created_at < jobs[b].created_at

\* The documents findOneAndUpdate may pick: the matches no other match sorts before.
FirstMatches ==
  LET matches == {id \in Stored : Eligible(id)}
  IN  {id \in matches : \A other \in matches : ~SortsBefore(other, id)}

\* History: each stored job as a fetch at this moment finds it.
Snapshot ==
  [id \in Stored |->
     IF jobs[id].state # "pending" THEN jobs[id].state
     ELSE IF jobs[id].run_at > now THEN "scheduled" ELSE "eligible"]

\* One pass of `while (running)` in which fetchAndLockJob finds a job.
FetchAndLock(w) ==
  /\ pc[w] = "loop"
  /\ running[w]
  /\ storeUp
  /\ \E id \in FirstMatches :
       /\ jobs' = [jobs EXCEPT ![id].state = "processing"]
       /\ job' = [job EXCEPT ![w] =
                    [ id          |-> id,
                      attempts    |-> jobs[id].attempts,
                      max_retries |-> jobs[id].max_retries,
                      timeout     |-> jobs[id].timeout,
                      command     |-> jobs[id].command,
                      \* Mongoose has no `returnNewDocument` option: the
                      \* document resolved is the one the filter matched.
                      state       |-> jobs[id].state ]]
  /\ pc' = [pc EXCEPT ![w] = "busy"]
  /\ seen' = [seen EXCEPT ![w] = Snapshot]
  /\ UNCHANGED <<configs, now, systemConfig, hist, nConfigSets>>
  /\ UNCHANGED <<running, poolVars, cli, storeUp>>

\* One pass of `while (running)` in which fetchAndLockJob returns null.
FetchNone(w) ==
  /\ pc[w] = "loop"
  /\ running[w]
  /\ storeUp
  /\ FirstMatches = {}
  /\ pc' = [pc EXCEPT ![w] = "sleep"]
  /\ seen' = [seen EXCEPT ![w] = Snapshot]
  /\ UNCHANGED <<jobs, configs, now, job, systemConfig, hist, nConfigSets>>
  /\ UNCHANGED <<running, poolVars, cli, storeUp>>

\* sleep(2000) is over.
Wake(w) ==
  /\ pc[w] = "sleep"
  /\ pc' = [pc EXCEPT ![w] = "loop"]
  /\ seen' = [seen EXCEPT ![w] = <<>>]
  /\ UNCHANGED <<jobs, configs, now, job, systemConfig, hist, nConfigSets>>
  /\ UNCHANGED <<running, poolVars, cli, storeUp>>

\* JavaScript's a || b on numbers.
Or(a, b) == IF a # 0 THEN a ELSE b

\* How long a command runs when nothing stops it, in milliseconds.
Duration(command) == IF command = "sleep 3" THEN 3000 ELSE 0

\* `const timeout = job.timeout || systemConfig.job_timeout`, then
\* execPromise(job.command, { timeout }): exec kills a command that runs longer.
TimesOut(w) ==
  Duration(job[w].command) > Or(job[w].timeout, systemConfig[w].job_timeout)

\* The update of the success path: { state: 'completed', output, error }, the
\* error being the command's stderr, here empty.
Completed(doc) == [doc EXCEPT !.state = "completed", !.error = ""]

\* executeJob, the command exits 0 within the timeout:
\* updateOne({_id}, {state: 'completed', ...}).
ExecSucceed(w) ==
  /\ pc[w] = "busy"
  /\ storeUp
  /\ ~TimesOut(w)
  /\ jobs' = [jobs EXCEPT ![job[w].id] = Completed(jobs[job[w].id])]
  /\ hist' = [hist EXCEPT ![job[w].id].execs = @ + 1]
  /\ job' = [job EXCEPT ![w] = Null]
  /\ pc' = [pc EXCEPT ![w] = "loop"]
  /\ seen' = [seen EXCEPT ![w] = <<>>]
  /\ UNCHANGED <<configs, now, systemConfig, nConfigSets>>
  /\ UNCHANGED <<running, poolVars, cli, storeUp>>

\* Math.pow on integers, exponent >= 0.
RECURSIVE Pow(_, _)
Pow(base, n) == IF n = 0 THEN 1 ELSE base * Pow(base, n - 1)

\* Mutant: the test written with > for >=.
ExceededMaxRetries(newAttempts, maxRetries) == newAttempts > maxRetries

\* `if (newAttempts >= maxRetries)`: the job goes to the DLQ.
ReachedMaxRetries(newAttempts, maxRetries) == newAttempts >= maxRetries

\* Mutant: the exponent is the attempt count before this failure.
delayFromOldAttempts(backoff_base, newAttempts) == Pow(backoff_base, newAttempts - 1)

\* `const delaySeconds = Math.pow(systemConfig.backoff_base, newAttempts)`.
delaySeconds(backoff_base, newAttempts) ==
  IF backoff_base = NaN THEN NaN ELSE Pow(backoff_base, newAttempts)

\* `new Date(Date.now() + delaySeconds * 1000)` is an Invalid Date:
\* newRunAt.toISOString() in the log line that follows throws a RangeError.
InvalidDate(delay) == delay = NaN

\* `error.killed && error.signal === 'SIGTERM'`: the error comes from exec,
\* which killed the command at its timeout.
Killed(w) == pc[w] = "busy" /\ TimesOut(w)

\* Mutant: the timeout message put before every error.
jobErrorAlwaysTimedOut(w) == "TimedOut"

\* jobError: error.message, with `Job TIMED OUT (exceeded ...ms).` before it
\* when the command was killed at its timeout.
jobError(w) == IF Killed(w) THEN "TimedOut" ELSE "Failed"

\* Mutant: the update of the DLQ branch with run_at set as well.
MovedToDlqAtNow(doc, newAttempts, error) ==
  [doc EXCEPT !.state = "dead", !.attempts = newAttempts, !.error = error,
              !.run_at = now]

\* The update of the DLQ branch: { state: 'dead', attempts, output, error }.
MovedToDlq(doc, newAttempts, error) ==
  [doc EXCEPT !.state = "dead", !.attempts = newAttempts, !.error = error]

\* The update of the retry branch: { state: 'pending', attempts, run_at,
\* output, error }.
Retried(doc, newAttempts, newRunAt, error) ==
  [doc EXCEPT !.state = "pending", !.attempts = newAttempts, !.run_at = newRunAt,
              !.error = error]

\* What a rejected store operation does to worker w's process: nothing in
\* startWorker or executeJob catches it, the loop is over.
Thrown(w) == [pc EXCEPT ![w] = "crashed"]

\* executeJob, the catch block: the command failed (non-zero exit, signal or
\* timeout), or the updateOne of the success path was rejected.
ExecFail(w) ==
  /\ pc[w] \in {"busy", "catch"}
  /\ storeUp
  /\ LET id == job[w].id
         newAttempts == job[w].attempts + 1
         maxRetries == Or(job[w].max_retries, systemConfig[w].max_retries)
         delay == delaySeconds(systemConfig[w].backoff_base, newAttempts)
     IN  IF ~ReachedMaxRetries(newAttempts, maxRetries) /\ InvalidDate(delay)
           THEN \* the retry branch throws before its updateOne: executeJob
                \* is rejected, nothing is written
                /\ pc' = Thrown(w)
                /\ UNCHANGED <<jobs, job, seen>>
           ELSE /\ IF ReachedMaxRetries(newAttempts, maxRetries)
                     THEN jobs' = [jobs EXCEPT ![id] =
                                     MovedToDlq(jobs[id], newAttempts, jobError(w))]
                     ELSE jobs' = [jobs EXCEPT ![id] =
                                     Retried(jobs[id], newAttempts, now + delay,
                                             jobError(w))]
                /\ job' = [job EXCEPT ![w] = Null]
                /\ pc' = [pc EXCEPT ![w] = "loop"]
                /\ seen' = [seen EXCEPT ![w] = <<>>]
  /\ hist' = [hist EXCEPT ![job[w].id].execs = @ + 1]
  /\ UNCHANGED <<configs, now, systemConfig, nConfigSets>>
  /\ UNCHANGED <<running, poolVars, cli, storeUp>>

\* ------------------------------------------- the store cannot be reached
\* The connection to MongoDB is lost, and comes back.
StoreDown ==
  /\ storeUp
  /\ storeUp' = FALSE
  /\ UNCHANGED <<jobs, configs, now, pc, job, systemConfig, seen, hist, nConfigSets>>
  /\ UNCHANGED <<running, poolVars, cli>>

StoreBack ==
  /\ ~storeUp
  /\ storeUp' = TRUE
  /\ UNCHANGED <<jobs, configs, now, pc, job, systemConfig, seen, hist, nConfigSets>>
  /\ UNCHANGED <<running, poolVars, cli>>

\* startWorker, connectDB fails: its catch block calls process.exit(1).
StartWorkerFails(w) ==
  /\ pc[w] = "off"
  /\ ~storeUp
  /\ pc' = [pc EXCEPT ![w] = "exited"]
  /\ UNCHANGED <<jobs, configs, now, job, systemConfig, seen, hist, nConfigSets>>
  /\ UNCHANGED <<running, poolVars, cli, storeUp>>

\* One pass of `while (running)` in which fetchAndLockJob is rejected:
\* `await fetchAndLockJob()` stands in no try block.
FetchThrows(w) ==
  /\ pc[w] = "loop"
  /\ running[w]
  /\ ~storeUp
  /\ pc' = Thrown(w)
  /\ UNCHANGED <<jobs, configs, now, job, systemConfig, seen, hist, nConfigSets>>
  /\ UNCHANGED <<running, poolVars, cli, storeUp>>

\* executeJob, the command exits 0 and the updateOne that records it is
\* rejected: it stands inside the try, so control goes to the catch block.
PersistThrows(w) ==
  /\ pc[w] = "busy"
  /\ ~storeUp
  /\ ~TimesOut(w)
  /\ pc' = [pc EXCEPT ![w] = "catch"]
  /\ UNCHANGED <<jobs, configs, now, job, systemConfig, seen, hist, nConfigSets>>
  /\ UNCHANGED <<running, poolVars, cli, storeUp>>

\* executeJob, the updateOne of the catch block is rejected: executeJob is
\* rejected, and `await executeJob(job)` stands in no try block.
CatchThrows(w) ==
  /\ pc[w] \in {"busy", "catch"}
  /\ ~storeUp
  /\ pc' = Thrown(w)
  /\ UNCHANGED <<jobs, configs, now, job, systemConfig, seen, hist, nConfigSets>>
  /\ UNCHANGED <<running, poolVars, cli, storeUp>>

\* `while (running)` finds the flag false: disconnectDB, and the process ends.
Exit(w) ==
  /\ pc[w] = "loop"
  /\ ~running[w]
  /\ pc' = [pc EXCEPT ![w] = "exited"]
  /\ UNCHANGED <<jobs, configs, now, job, systemConfig, seen, hist, nConfigSets>>
  /\ UNCHANGED <<running, poolVars, cli, storeUp>>

\* A SIGTERM reaches worker w.  After startWorker has registered its handler
\* the handler sets running = false; before that (connectDB, loadConfig) the
\* signal has its default action and ends the process.
Sigterm(w) ==
  /\ sig[w]
  /\ sig' = [sig EXCEPT ![w] = FALSE]
  /\ IF pc[w] = "off"
       THEN pc' = [pc EXCEPT ![w] = "exited"] /\ UNCHANGED running
       ELSE running' = [running EXCEPT ![w] = FALSE] /\ UNCHANGED pc
  /\ UNCHANGED <<jobs, configs, now, job, systemConfig, seen, hist, nConfigSets>>
  /\ UNCHANGED <<master, masterSig, pidFile, workerCount, respawned, stopPc, starter, cli, storeUp>>

\* ------------------------------------------- queuectl.js (the worker pool)
\* A worker process that exists.
Live(w) == pc[w] \in {"off", "loop", "busy", "sleep", "catch"}

\* The workers `for (i < workerCount) cluster.fork()` makes.
PoolOf(count) == CHOOSE S \in SUBSET Workers : Cardinality(S) = count

\* A process as cluster.fork() makes it.
Forked(f, w, value) == [f EXCEPT ![w] = value]

\* `worker start --count <count>`: refused when queuectl.pid exists; else the
\* PID file is written and the master forks its workers and registers its
\* handlers.  It is run when no worker of an earlier pool is left.
WorkerStart(count) ==
  /\ IF pidFile
       THEN /\ cli' = Ran("worker start", [count |-> count], "AlreadyRunning")
            /\ UNCHANGED <<pc, job, systemConfig, seen, running, poolVars>>
       ELSE /\ \A w \in Workers : ~Live(w)
            /\ cli' = Ran("worker start", [count |-> count], "Started")
            /\ pidFile' = TRUE
            /\ master' = "up"
            /\ masterSig' = FALSE
            /\ workerCount' = count
            /\ pc' = [w \in Workers |-> IF w \in PoolOf(count) THEN "off" ELSE "none"]
            /\ job' = [w \in Workers |-> Null]
            /\ systemConfig' = [w \in Workers |-> DefaultConfig]
            /\ seen' = [w \in Workers |-> <<>>]
            /\ running' = [w \in Workers |-> FALSE]
            /\ sig' = [w \in Workers |-> FALSE]
            /\ respawned' = [w \in Workers |-> FALSE]
            /\ starter' = [m \in Starters |-> IF m = "m1" THEN "master" ELSE "idle"]
            /\ UNCHANGED stopPc
  /\ UNCHANGED <<jobs, configs, now, hist, nConfigSets, storeUp>>

\* A worker process ends unexpectedly (killed, out of memory).
Crash(w) ==
  /\ Live(w)
  /\ pc' = [pc EXCEPT ![w] = "crashed"]
  /\ sig' = [sig EXCEPT ![w] = FALSE]
  /\ UNCHANGED <<jobs, configs, now, job, systemConfig, seen, hist, nConfigSets>>
  /\ UNCHANGED <<running, master, masterSig, pidFile, workerCount, respawned, stopPc, starter>>
  /\ UNCHANGED <<cli, storeUp>>

\* Mutant: the exit handler puts the job the dead worker held back in the
\* queue.
OnExitRequeues(w) ==
  /\ master = "up"
  /\ pc[w] \in {"crashed", "exited"}
  /\ pc' = Forked(pc, w, "off")
  /\ job' = Forked(job, w, Null)
  /\ systemConfig' = Forked(systemConfig, w, DefaultConfig)
  /\ seen' = Forked(seen, w, <<>>)
  /\ running' = Forked(running, w, FALSE)
  /\ respawned' = Forked(respawned, w, TRUE)
  /\ jobs' = IF job[w].id \in Stored
              THEN [jobs EXCEPT ![job[w].id].state = "pending"]
              ELSE jobs
  /\ UNCHANGED <<configs, now, hist, nConfigSets>>
  /\ UNCHANGED <<sig, master, masterSig, pidFile, workerCount, stopPc, starter, cli, storeUp>>

\* cluster.on('exit'): the master forks a worker for every worker that ended.
OnExit(w) ==
  /\ master = "up"
  /\ pc[w] \in {"crashed", "exited"}
  /\ pc' = Forked(pc, w, "off")
  /\ job' = Forked(job, w, Null)
  /\ systemConfig' = Forked(systemConfig, w, DefaultConfig)
  /\ seen' = Forked(seen, w, <<>>)
  /\ running' = Forked(running, w, FALSE)
  /\ respawned' = Forked(respawned, w, TRUE)
  /\ UNCHANGED <<jobs, configs, now, hist, nConfigSets>>
  /\ UNCHANGED <<sig, master, masterSig, pidFile, workerCount, stopPc, starter, cli, storeUp>>

\* `worker stop` up to fs.existsSync(PID_FILE): without the file it reports
\* that no workers are running and ends.
WorkerStopCheck ==
  /\ stopPc = "idle"
  /\ IF pidFile
       THEN stopPc' = "checked" /\ UNCHANGED cli
       ELSE cli' = Ran("worker stop", [id |-> NoId], "NotRunning") /\ UNCHANGED stopPc
  /\ UNCHANGED <<jobs, configs, now, pc, job, systemConfig, seen, hist, nConfigSets>>
  /\ UNCHANGED <<running, sig, master, masterSig, pidFile, workerCount, respawned, storeUp>>
  /\ UNCHANGED starter

\* `worker stop` from readFileSync on: the file is gone (readFileSync throws),
\* or the master is (process.kill throws ESRCH and the stale file is
\* removed), or the SIGTERM is sent.
WorkerStopKill ==
  /\ stopPc = "checked"
  /\ stopPc' = "idle"
  /\ IF ~pidFile
       THEN /\ cli' = Ran("worker stop", [id |-> NoId], "ErrorStopping")
            /\ UNCHANGED <<pidFile, masterSig>>
       ELSE IF master = "down"
         THEN /\ cli' = Ran("worker stop", [id |-> NoId], "ErrorStopping")
              /\ pidFile' = FALSE
              /\ UNCHANGED masterSig
         ELSE /\ cli' = Ran("worker stop", [id |-> NoId], "StopSignalSent")
              /\ masterSig' = TRUE
              /\ UNCHANGED pidFile
  /\ UNCHANGED <<jobs, configs, now, pc, job, systemConfig, seen, hist, nConfigSets>>
  /\ UNCHANGED <<running, sig, master, workerCount, respawned, storeUp, starter>>

\* Mutant: the master's handler without process.exit(0).
MasterSigtermKeepsRunning ==
  /\ master = "up"
  /\ masterSig
  /\ sig' = [w \in Workers |-> sig[w] \/ Live(w)]
  /\ pidFile' = FALSE
  /\ masterSig' = FALSE
  /\ UNCHANGED <<jobs, configs, now, pc, job, systemConfig, seen, hist, nConfigSets>>
  /\ UNCHANGED <<running, master, workerCount, respawned, stopPc, starter, cli, storeUp>>

\* The master's SIGTERM handler: kill('SIGTERM') for every worker of
\* cluster.workers, unlinkSync(PID_FILE), process.exit(0).
MasterSigterm ==
  /\ master = "up"
  /\ masterSig
  /\ sig' = [w \in Workers |-> sig[w] \/ Live(w)]
  /\ pidFile' = FALSE
  /\ master' = "down"
  /\ masterSig' = FALSE
  /\ starter' = [m \in Starters |-> "idle"]
  /\ UNCHANGED <<jobs, configs, now, pc, job, systemConfig, seen, hist, nConfigSets>>
  /\ UNCHANGED <<running, workerCount, respawned, stopPc, cli, storeUp>>

\* The master has exited and the IPC channel of worker w is closed: a cluster
\* worker that did not ask to be disconnected exits at once on 'disconnect'.
\* Whether the event comes before the worker is done depends on timing.
Disconnect(w) ==
  /\ master = "down"
  /\ Live(w)
  /\ pc' = [pc EXCEPT ![w] = "exited"]
  /\ sig' = [sig EXCEPT ![w] = FALSE]
  /\ UNCHANGED <<jobs, configs, now, job, systemConfig, seen, hist, nConfigSets>>
  /\ UNCHANGED <<running, master, masterSig, pidFile, workerCount, respawned, stopPc, starter>>
  /\ UNCHANGED <<cli, storeUp>>

\* The engine under the default configuration: the configs collection stays
\* empty, and clients use every job id.
Next ==
  \/ Tick
  \/ \E id \in JobIds, spec \in JobSpecs : Enqueue(id, spec)
  \/ \E id \in JobIds : DlqRetry(id)
  \/ \E w \in Workers : StartWorker(w)
  \/ \E w \in Workers : FetchAndLock(w)
  \/ \E w \in Workers : FetchNone(w)
  \/ \E w \in Workers : Wake(w)
  \/ \E w \in Workers : ExecSucceed(w)
  \/ \E w \in Workers : ExecFail(w)

Spec == Init /\ [][Next]_vars

\* The engine under `config set`, run at any moment, with the clients using
\* one job id.
NextConfig ==
  \/ Tick
  \/ \E key \in ConfigKeys : \E value \in ConfigValues(key) : ConfigSet(key, value)
  \/ \E id \in ConfigJobIds, spec \in JobSpecs : Enqueue(id, spec)
  \/ \E id \in ConfigJobIds : DlqRetry(id)
  \/ \E w \in Workers : StartWorker(w)
  \/ \E w \in Workers : FetchAndLock(w)
  \/ \E w \in Workers : FetchNone(w)
  \/ \E w \in Workers : Wake(w)
  \/ \E w \in Workers : ExecSucceed(w)
  \/ \E w \in Workers : ExecFail(w)

SpecConfig == Init /\ [][NextConfig]_vars

\* The job documents and the `config set job_timeout` values of SpecTimeout:
\* commands that run 3 s, with and without a timeout of their own.
TimeoutJobSpecs ==
  { [command |-> "sleep 3"],
    [command |-> "sleep 3", timeout |-> 1000, max_retries |-> 1],
    [command |-> "sleep 3", timeout |-> 5000],
    [command |-> "cmd"] }

JobTimeoutValues == {2000}

\* The engine under `config set job_timeout`, with commands that take time.
NextTimeout ==
  \/ Tick
  \/ \E value \in JobTimeoutValues : ConfigSet("job_timeout", value)
  \/ \E id \in ConfigJobIds, spec \in TimeoutJobSpecs : Enqueue(id, spec)
  \/ \E id \in ConfigJobIds : DlqRetry(id)
  \/ \E w \in Workers : StartWorker(w)
  \/ \E w \in Workers : FetchAndLock(w)
  \/ \E w \in Workers : FetchNone(w)
  \/ \E w \in Workers : Wake(w)
  \/ \E w \in Workers : ExecSucceed(w)
  \/ \E w \in Workers : ExecFail(w)

SpecTimeout == Init /\ [][NextTimeout]_vars

\* The arguments of `enqueue` in SpecCli: complete documents, and documents
\* without an id, without a command, and with an empty command.
CliJobData ==
  { [id |-> "j1", command |-> "cmd"],
    [id |-> "j1", command |-> "cmd", max_retries |-> 1],
    [id |-> "j2", command |-> "cmd", max_retries |-> 1],
    [command |-> "cmd"],
    [id |-> "j1"],
    [id |-> "j2", command |-> ""] }

\* The worker that gets to run in SpecCli: the other is still connecting.
CliWorkers == {"w1"}

\* The engine with the CLI commands run whole, rejections included.
NextCli ==
  \/ Tick
  \/ \E jobData \in CliJobData : EnqueueCmd(jobData)
  \/ \E id \in JobIds : DlqRetryCmd(id)
  \/ \E w \in CliWorkers : StartWorker(w)
  \/ \E w \in CliWorkers : FetchAndLock(w)
  \/ \E w \in CliWorkers : FetchNone(w)
  \/ \E w \in CliWorkers : Wake(w)
  \/ \E w \in CliWorkers : ExecSucceed(w)
  \/ \E w \in CliWorkers : ExecFail(w)

SpecCli == Init /\ [][NextCli]_vars

\* The documents enqueued in SpecStore and SpecPool.
PoolJobSpecs == { [command |-> "cmd"] }

\* The engine and its master with a store that comes and goes, over a queue
\* of one job id.
NextStore ==
  \/ Tick
  \/ StoreDown
  \/ StoreBack
  \/ \E id \in ConfigJobIds, spec \in PoolJobSpecs : Enqueue(id, spec)
  \/ \E w \in Workers : StartWorker(w)
  \/ \E w \in Workers : StartWorkerFails(w)
  \/ \E w \in Workers : OnExit(w)
  \/ \E w \in Workers : FetchAndLock(w)
  \/ \E w \in Workers : FetchNone(w)
  \/ \E w \in Workers : FetchThrows(w)
  \/ \E w \in Workers : Wake(w)
  \/ \E w \in Workers : ExecSucceed(w)
  \/ \E w \in Workers : PersistThrows(w)
  \/ \E w \in Workers : ExecFail(w)
  \/ \E w \in Workers : CatchThrows(w)

SpecStore == Init /\ [][NextStore]_vars

\* The engine under a supervisor whose workers can be killed at any point.
CrashJobSpecs == { [command |-> "cmd", max_retries |-> 1] }

NextCrash ==
  \/ \E id \in JobIds, spec \in CrashJobSpecs : Enqueue(id, spec)
  \/ \E id \in JobIds : DlqRetry(id)
  \/ \E w \in Workers : StartWorker(w)
  \/ \E w \in Workers : FetchAndLock(w)
  \/ \E w \in Workers : FetchNone(w)
  \/ \E w \in Workers : Wake(w)
  \/ \E w \in Workers : ExecSucceed(w)
  \/ \E w \in Workers : ExecFail(w)
  \/ \E w \in Workers : Crash(w)
  \/ \E w \in Workers : OnExit(w)

SpecCrash == Init /\ [][NextCrash]_vars

\* The engine left to run: the clients enqueue and then only wait, the clock
\* goes on to the next run_at some pending job waits for, and every worker
\* that can take a step takes it in the end (each is a process of its own
\* whose loop awaits the store, the command or a 2 s sleep and goes on).
LiveJobSpecs ==
  { [command |-> "cmd"],
    [command |-> "cmd", max_retries |-> 1],
    [command |-> "cmd", max_retries |-> 0],
    [command |-> "cmd", state |-> "processing"] }

\* Date.now() reaches the earliest run_at a pending job waits for.
Elapse ==
  /\ \E id \in Stored : jobs[id].state = "pending" /\ jobs[id].run_at > now
  /\ now' = CHOOSE t \in {jobs[id].run_at : id \in Stored} :
              /\ t > now
              /\ \E id \in Stored : jobs[id].state = "pending" /\ jobs[id].run_at = t
              /\ \A id \in Stored :
                    jobs[id].state = "pending" /\ jobs[id].run_at > now =>
                      t <= jobs[id].run_at
  /\ UNCHANGED <<jobs, configs, pc, job, systemConfig, seen, hist, nConfigSets>>
  /\ UNCHANGED <<running, poolVars, cli, storeUp>>

NextLive ==
  \/ Elapse
  \/ \E id \in JobIds, spec \in LiveJobSpecs : Enqueue(id, spec)
  \/ \E w \in Workers : StartWorker(w)
  \/ \E w \in Workers : FetchAndLock(w)
  \/ \E w \in Workers : FetchNone(w)
  \/ \E w \in Workers : Wake(w)
  \/ \E w \in Workers : ExecSucceed(w)
  \/ \E w \in Workers : ExecFail(w)

SpecLive ==
  /\ Init
  /\ [][NextLive]_vars
  /\ WF_vars(Elapse)
  /\ \A w \in Workers :
       /\ WF_vars(StartWorker(w))
       /\ WF_vars(FetchAndLock(w) \/ FetchNone(w))
       /\ WF_vars(Wake(w))
       /\ WF_vars(ExecSucceed(w) \/ ExecFail(w))

\* The engine with `config set backoff_base` given a number or a word.
BackoffValues == {2, NotNumeric}

NextBadConfig ==
  \/ Tick
  \/ \E value \in BackoffValues : ConfigSet("backoff_base", value)
  \/ \E id \in ConfigJobIds, spec \in PoolJobSpecs : Enqueue(id, spec)
  \/ \E w \in Workers : StartWorker(w)
  \/ \E w \in Workers : FetchAndLock(w)
  \/ \E w \in Workers : FetchNone(w)
  \/ \E w \in Workers : Wake(w)
  \/ \E w \in Workers : ExecSucceed(w)
  \/ \E w \in Workers : ExecFail(w)

SpecBadConfig == Init /\ [][NextBadConfig]_vars

\* No `worker start` has run yet.
InitPool ==
  /\ InitStore
  /\ pc = [w \in Workers |-> "none"]
  /\ master = "down"
  /\ pidFile = FALSE
  /\ workerCount = 0
  /\ starter = [m \in Starters |-> "idle"]

\* The sizes `worker start --count` is given in SpecPool.
PoolCounts == {1, 2}

\* The worker pool from `worker start` to `worker stop` and on, with workers
\* that crash, over a queue of one job id.
NextPool ==
  \/ \E count \in PoolCounts : WorkerStart(count)
  \/ WorkerStopCheck
  \/ WorkerStopKill
  \/ MasterSigterm
  \/ \E w \in Workers : OnExit(w)
  \/ \E w \in Workers : Crash(w)
  \/ \E w \in Workers : Sigterm(w)
  \/ \E w \in Workers : Disconnect(w)
  \/ \E w \in Workers : Exit(w)
  \/ \E id \in ConfigJobIds, spec \in PoolJobSpecs : Enqueue(id, spec)
  \/ \E w \in Workers : StartWorker(w)
  \/ \E w \in Workers : FetchAndLock(w)
  \/ \E w \in Workers : FetchNone(w)
  \/ \E w \in Workers : Wake(w)
  \/ \E w \in Workers : ExecSucceed(w)
  \/ \E w \in Workers : ExecFail(w)

SpecPool == InitPool /\ [][NextPool]_vars

\* `worker start --count 1` run by two processes at once, each step of one
\* free to fall between the steps of the other; the worker each forks is
\* the one of its name.
StartCount == 1

WorkerOf(m) == IF m = "m1" THEN "w1" ELSE "w2"

\* `worker start` up to fs.existsSync(PID_FILE): with the file there it
\* prints the error and returns.
StartCheck(m) ==
  /\ starter[m] = "idle"
  /\ IF pidFile
       THEN /\ cli' = Ran("worker start", [count |-> StartCount], "AlreadyRunning")
            /\ UNCHANGED starter
       ELSE /\ starter' = [starter EXCEPT ![m] = "checked"]
            /\ UNCHANGED cli
  /\ UNCHANGED <<jobs, configs, now, pc, job, systemConfig, seen, hist, nConfigSets>>
  /\ UNCHANGED <<running, sig, master, masterSig, pidFile, workerCount, respawned, stopPc>>
  /\ UNCHANGED storeUp

\* `worker start` from fs.writeFileSync(PID_FILE, pid) on: the file is
\* written (over the one that may be there by now), the workers are forked
\* and the handlers registered.
StartFork(m) ==
  /\ starter[m] = "checked"
  /\ starter' = [starter EXCEPT ![m] = "master"]
  /\ pidFile' = TRUE
  /\ master' = "up"
  /\ workerCount' = workerCount + StartCount
  /\ pc' = Forked(pc, WorkerOf(m), "off")
  /\ cli' = Ran("worker start", [count |-> StartCount], "Started")
  /\ UNCHANGED <<jobs, configs, now, job, systemConfig, seen, hist, nConfigSets>>
  /\ UNCHANGED <<running, sig, masterSig, respawned, stopPc, storeUp>>

NextStart ==
  \/ \E m \in Starters : StartCheck(m)
  \/ \E m \in Starters : StartFork(m)
  \/ \E id \in JobIds, spec \in PoolJobSpecs : Enqueue(id, spec)
  \/ \E w \in Workers : StartWorker(w)
  \/ \E w \in Workers : FetchAndLock(w)
  \/ \E w \in Workers : FetchNone(w)
  \/ \E w \in Workers : Wake(w)
  \/ \E w \in Workers : ExecSucceed(w)
  \/ \E w \in Workers : ExecFail(w)

SpecStart == InitPool /\ [][NextStart]_vars

\* ------------------------------------------------------------------ claims
\* Eligibility as the glossary states it: state pending and run_at <= now.
EligibleNow(id) == jobs[id].state = "pending" /\ jobs[id].run_at <= now

\* Worker w holds job id: it fetched it and has not resolved it yet.
Holds(w, id) == pc[w] = "busy" /\ job[w].id = id

\* The step in which the fetch of worker w returns job id.
FetchStep(w, id) == pc[w] = "loop" /\ pc'[w] = "busy" /\ job'[w].id = id

\* The step in which worker w resolves a failed execution of the job it holds.
FailStep(w) ==
  pc[w] = "busy" /\ pc'[w] = "loop" /\ jobs'[job[w].id].state # "completed"

\* The job entered the queue as the data model says: pending, attempts 0
\* (by enqueue with the schema defaults, or by dlq retry).
EnteredFresh(id) == hist[id].state0 = "pending" /\ hist[id].attempts0 = 0

\* C1: a job is held in processing by at most one worker at a time, and a
\* held job is in state processing; of the workers racing for one eligible
\* job, one gets it and the others get nothing.
AtMostOneClaim ==
  /\ \A id \in Stored : Cardinality({w \in Workers : Holds(w, id)}) <= 1
  /\ \A w \in Workers :
       pc[w] = "busy" => job[w].id \in Stored /\ jobs[job[w].id].state = "processing"

\* Two workers fetched while j was the only stored job: the first found it
\* eligible and holds it, the second found it processing and got null.
AtMostOneClaimWitness ==
  \E w1 \in Workers, w2 \in Workers, id \in Stored :
    /\ w1 # w2
    /\ Stored = {id}
    /\ Holds(w1, id)
    /\ seen[w1] = (id :> "eligible")
    /\ pc[w2] = "sleep"
    /\ seen[w2] = (id :> "processing")

\* C2: every fetch that returns a job returns one whose priority is the
\* maximum among the jobs eligible at that instant.
PriorityOrder ==
  [][\A w \in Workers, id \in Stored :
       FetchStep(w, id) =>
         \A r \in Stored : EligibleNow(r) => jobs[r].priority <= jobs[id].priority]_vars

\* A(priority 0, created first) and B(priority 10, created second) were both
\* eligible, and the fetch returned B.
PriorityOrderWitness ==
  \E w \in Workers, a \in Stored, b \in Stored :
    /\ Holds(w, b)
    /\ a \in DOMAIN seen[w] /\ seen[w][a] = "eligible"
    /\ jobs[a].priority = 0 /\ jobs[b].priority = 10
    /\ jobs[a].created_at < jobs[b].created_at

\* C3: among the eligible jobs that share the highest priority, every fetch
\* returns one with the earliest created_at.
FifoTieBreak ==
  [][\A w \in Workers, id \in Stored :
       FetchStep(w, id) =>
         LET top == {r \in Stored :
                       /\ EligibleNow(r)
                       /\ \A k \in Stored : EligibleNow(k) =>
                                              jobs[k].priority <= jobs[r].priority}
         IN  /\ id \in top
             /\ \A r \in top : jobs[id].created_at <= jobs[r].created_at]_vars

\* The fetch returned a job that had been through the DLQ and a retry, while a
\* job of the same priority, created later, was eligible too.
FifoTieBreakWitness ==
  \E w \in Workers, a \in Stored, b \in Stored :
    /\ Holds(w, a)
    /\ job[w].attempts >= 1
    /\ hist[a].requeued
    /\ b \in DOMAIN seen[w] /\ seen[w][b] = "eligible"
    /\ jobs[a].priority = jobs[b].priority
    /\ jobs[a].created_at < jobs[b].created_at

\* C4: a pending job whose run_at is later than the current time is not
\* moved to processing and not returned by a fetch in that step.
EligibilityGating ==
  [][\A id \in Stored :
       jobs[id].state = "pending" /\ jobs[id].run_at > now =>
         /\ jobs'[id].state # "processing"
         /\ \A w \in Workers : ~FetchStep(w, id)]_vars

\* A fetch returned null while two pending jobs waited for their run_at: one
\* scheduled by its client, one delayed by a retry backoff.
EligibilityGatingWitness ==
  \E w \in Workers, a \in Stored, b \in Stored :
    /\ pc[w] = "sleep"
    /\ seen[w] = (a :> "scheduled") @@ (b :> "scheduled")
    /\ jobs[a].state = "pending" /\ jobs[a].attempts = 0 /\ jobs[a].run_at > now
    /\ jobs[b].state = "pending" /\ jobs[b].attempts >= 1 /\ jobs[b].run_at > now
    /\ hist[b].execs >= 1

\* C5: attempts counts every resolved execution, successful or failed: after
\* any sequence of worker operations attempts is the attempts the job entered
\* the queue with plus the number of executions resolved for it.
AttemptsCountExecutions ==
  \A id \in Stored :
    EnteredFresh(id) => jobs[id].attempts = hist[id].execs

\* C6: a job with max_retries = m >= 1 whose every execution fails is
\* executed exactly m times and ends dead with attempts = m: while it is
\* pending or processing it has been executed fewer than m times, and once
\* dead it has been executed m times and has attempts = m.
RetryProgression ==
  \A id \in Stored :
    EnteredFresh(id) /\ jobs[id].max_retries >= 1 =>
      /\ jobs[id].state \in {"pending", "processing"} =>
           hist[id].execs < jobs[id].max_retries /\ jobs[id].attempts = hist[id].execs
      /\ jobs[id].state = "dead" =>
           hist[id].execs = jobs[id].max_retries /\ jobs[id].attempts = jobs[id].max_retries

\* A job with max_retries 3 has failed 3 times and is dead with attempts 3.
RetryProgressionWitness ==
  \E id \in Stored :
    /\ EnteredFresh(id)
    /\ jobs[id].max_retries = 3
    /\ jobs[id].state = "dead"
    /\ hist[id].execs = 3
    /\ jobs[id].attempts = 3

\* C7: no worker holds a dead or completed job, and a dead or completed job
\* does not change, except that dlq retry moves a dead job to pending.
TerminalStates ==
  /\ [](\A id \in Stored : jobs[id].state \in {"dead", "completed"} =>
          \A w \in Workers : ~Holds(w, id))
  /\ [][\A id \in Stored :
          jobs[id].state \in {"dead", "completed"} =>
            \/ jobs'[id] = jobs[id]
            \/ /\ jobs[id].state = "dead"
               /\ jobs'[id] = [jobs[id] EXCEPT !.state = "pending",
                                               !.attempts = 0,
                                               !.run_at = now]
               /\ pc' = pc /\ job' = job]_vars

\* A fetch found one job dead and one completed and returned null; both are
\* as they were.
TerminalStatesWitness ==
  \E w \in Workers, a \in Stored, b \in Stored :
    /\ pc[w] = "sleep"
    /\ seen[w] = (a :> "dead") @@ (b :> "completed")
    /\ jobs[a].state = "dead" /\ hist[a].execs >= 1
    /\ jobs[b].state = "completed"

\* C8: whenever a failed execution sends a job back to pending, the run_at
\* persisted is strictly greater than the time of that failed attempt.
RetryRunAtInFuture ==
  [][\A w \in Workers :
       FailStep(w) /\ jobs'[job[w].id].state = "pending" =>
         jobs'[job[w].id].run_at > now]_vars

\* C9: a failure with attempts_after = attempts + 1 below the job's retry
\* ceiling leaves the job pending with attempts = attempts_after and
\* run_at = now + backoff_base ^ attempts_after, backoff_base being the
\* worker's runtime config value: 2 s and then 4 s with backoff_base 2.
BackoffFormula ==
  [][\A w \in Workers :
       FailStep(w) =>
         LET id == job[w].id
             after == jobs[id].attempts + 1
             ceiling == IF jobs[id].max_retries # 0
                          THEN jobs[id].max_retries
                          ELSE systemConfig[w].max_retries
             base == systemConfig[w].backoff_base
         IN  after < ceiling =>
               /\ jobs'[id].state = "pending"
               /\ jobs'[id].attempts = after
               /\ jobs'[id].run_at = now + Pow(base, after)
               /\ base = 2 /\ after = 1 => jobs'[id].run_at = now + 2
               /\ base = 2 /\ after = 2 => jobs'[id].run_at = now + 4]_vars

\* A job has just failed for the second time under backoff_base 2: it is
\* pending with attempts 2 and run_at 4 s from now.
BackoffFormulaWitness ==
  \E id \in Stored :
    /\ EnteredFresh(id)
    /\ jobs[id].state = "pending"
    /\ hist[id].execs = 2
    /\ jobs[id].attempts = 2
    /\ jobs[id].run_at = now + 4

\* C10: a job enqueued without its own max_retries is moved to dead by the
\* failure that brings its attempts to the max_retries of the worker's
\* runtime config, and by no earlier one.
GlobalMaxRetriesApplies ==
  [][\A w \in Workers :
       FailStep(w) /\ EnteredFresh(job[w].id) /\ ~hist[job[w].id].ownMax =>
         (jobs'[job[w].id].state = "dead"
            <=> jobs'[job[w].id].attempts >= systemConfig[w].max_retries)]_vars

\* C11: a job enqueued without a timeout of its own is executed under the
\* job_timeout of the worker's runtime config: when its command runs longer
\* than that (3 s against 2000 ms), the execution is killed and does not end
\* with the job completed.
GlobalJobTimeoutApplies ==
  [][\A w \in Workers :
       /\ pc[w] = "busy" /\ pc'[w] = "loop"
       /\ ~hist[job[w].id].ownTimeout
       /\ Duration(job[w].command) > systemConfig[w].job_timeout
       => jobs'[job[w].id].state # "completed"]_vars

\* C15: dlq retry of a dead job leaves it pending with attempts 0 and
\* run_at = now, every other field as it was, so that it is eligible at once;
\* from there it has its whole retry budget again: it is dead again only
\* after max_retries further failed executions.
DlqRequeueResets ==
  /\ [][\A id \in Stored :
          jobs[id].state = "dead" /\ jobs'[id] # jobs[id] =>
            /\ jobs'[id] = [jobs[id] EXCEPT !.state = "pending",
                                            !.attempts = 0,
                                            !.run_at = now]
            /\ jobs'[id].run_at <= now']_vars
  /\ [](\A id \in Stored :
          hist[id].requeued /\ jobs[id].max_retries >= 1 =>
            /\ jobs[id].state \in {"pending", "processing"} =>
                 hist[id].execs < jobs[id].max_retries
            /\ jobs[id].state = "dead" => hist[id].execs = jobs[id].max_retries)

\* A job that died after a failure was requeued, and the next fetch, at the
\* same instant, returned it with attempts 0.
DlqRequeueResetsWitness ==
  \E w \in Workers, id \in Stored :
    /\ Holds(w, id)
    /\ hist[id].requeued
    /\ hist[id].state0 = "pending"
    /\ job[w].attempts = 0
    /\ jobs[id].run_at = now
    /\ seen[w][id] = "eligible"

\* The step in which the CLI command cmd runs.
CliStep(cmd) == cli'.seq # cli.seq /\ cli'.cmd = cmd

\* C16: dlq retry of an id that no stored job has, or of a job that is not
\* dead, reports NotFound and changes no field of any job, whatever the
\* workers do before and after it, also to the same job.
DlqRetryNotFound ==
  [][CliStep("dlq retry") =>
       LET id == cli'.arg.id
       IN  ~(id \in Stored /\ jobs[id].state = "dead") =>
             cli'.out = "NotFound" /\ jobs' = jobs]_vars

\* dlq retry reported NotFound for a job a worker holds in processing, about
\* to resolve it.
DlqRetryNotFoundWitness ==
  \E w \in Workers :
    /\ cli.cmd = "dlq retry"
    /\ cli.out = "NotFound"
    /\ Holds(w, cli.arg.id)
    /\ seen[w][cli.arg.id] = "eligible"

\* C17: enqueue of a complete document whose id a stored job has reports
\* DuplicateId and leaves every stored job, and so their number, as it was,
\* whatever the state of the stored job.
EnqueueDuplicateRejected ==
  [][CliStep("enqueue") =>
       LET jobData == cli'.arg
       IN  /\ "id" \in DOMAIN jobData /\ "command" \in DOMAIN jobData
           /\ jobData.command # ""
           /\ jobData.id \in Stored
           => cli'.out = "DuplicateId" /\ jobs' = jobs]_vars

\* enqueue reported DuplicateId for the id of a job that had failed once and
\* is dead; that job is dead still, while the other id entered the queue.
EnqueueDuplicateRejectedWitness ==
  /\ cli.cmd = "enqueue"
  /\ cli.out = "DuplicateId"
  /\ cli.arg.id \in Stored
  /\ jobs[cli.arg.id].state = "dead"
  /\ jobs[cli.arg.id].attempts = 1
  /\ Cardinality(Stored) = 2

\* C18: enqueue of a document without an id or without a command reports
\* InvalidSpec and writes nothing: the stored jobs are as they were.
EnqueueInvalidRejected ==
  [][CliStep("enqueue") =>
       LET jobData == cli'.arg
       IN  "id" \notin DOMAIN jobData \/ "command" \notin DOMAIN jobData =>
             cli'.out = "InvalidSpec" /\ jobs' = jobs]_vars

\* enqueue reported InvalidSpec for a document with an id that no stored job
\* has and no command; the id is not stored.
EnqueueInvalidRejectedWitness ==
  /\ cli.cmd = "enqueue"
  /\ cli.out = "InvalidSpec"
  /\ "id" \in DOMAIN cli.arg
  /\ "command" \notin DOMAIN cli.arg
  /\ cli.arg.id \notin Stored
  /\ Stored # {}

\* The worker processes that exist.
LiveWorkers == {w \in Workers : Live(w)}

\* C12: a graceful stop never interrupts an execution in flight: a worker
\* that holds a job ends only through a crash, never through the stop, so
\* that it resolves its job before it exits.
GracefulStopDrains ==
  [][\A w \in Workers :
       pc[w] \in {"busy", "catch"} /\ ~Live(w)' => pc'[w] = "crashed"]_vars

\* C13: on a graceful shutdown the supervisor exits only when every worker
\* has stopped (the code has no shutdown timeout that could elapse first).
SupervisorWaitsForWorkers ==
  [][master = "up" /\ master' = "down" => LiveWorkers = {}]_vars

\* C14: while the supervisor runs a pool of size N, the worker processes,
\* live or ended and not yet replaced, are N, so the live ones never exceed
\* N and are N again once every crash is handled; the handling of a crash
\* forks one worker in the place of the crashed one; a worker that exited on
\* a graceful stop is never replaced (only a new `worker start` makes
\* workers again).
PoolSizeMaintained ==
  /\ [](master = "up" =>
          /\ Cardinality(LiveWorkers) <= workerCount
          /\ Cardinality({w \in Workers : pc[w] # "none"}) = workerCount)
  /\ [][\A w \in Workers :
          master = "up" /\ master' = "up" /\ pc[w] = "crashed" /\ pc'[w] # "crashed" =>
            /\ pc'[w] = "off"
            /\ \A v \in Workers \ {w} : pc'[v] = pc[v]]_vars
  /\ [][\A w \in Workers :
          pc[w] = "exited" /\ pc'[w] # "exited" =>
            master = "down" /\ master' = "up"]_vars

\* A pool of size 2 is at full strength again: a worker crashed while the
\* other was executing a job, and its replacement runs the loop.
PoolSizeMaintainedWitness ==
  \E w \in Workers, v \in Workers :
    /\ master = "up"
    /\ workerCount = 2
    /\ respawned[w] /\ pc[w] = "sleep"
    /\ ~respawned[v] /\ pc[v] = "busy"
    /\ Cardinality(LiveWorkers) = 2

\* C19: `worker stop` is idempotent: run a second time it reports no error,
\* whether the supervisor has already gone (it then reports that no workers
\* are running) or not yet.
StopIsIdempotent ==
  cli.cmd = "worker stop" => cli.out \in {"StopSignalSent", "NotRunning"}

\* C20: a store that cannot be reached does not end a worker's loop, and
\* nothing is recorded against a job because of it: when the command has
\* succeeded and recording that fails, the job's attempts do not grow and
\* the job is not rescheduled or moved to dead.
StoreFailureTolerated ==
  /\ [](\A w \in Workers : pc[w] # "crashed")
  /\ [][\A w \in Workers :
          pc[w] = "catch" =>
            /\ jobs'[job[w].id].attempts = jobs[job[w].id].attempts
            /\ jobs'[job[w].id].state = "processing"]_vars

\* C21: an execution that exceeds its time bound (the job's timeout, else
\* the worker's job_timeout) does not complete and is recorded with the
\* timeout annotation in the job's error field; any other failed execution is
\* recorded without it; both go by the same rule: attempts + 1, and dead
\* exactly when that reaches the retry ceiling, else pending.
TimeoutAnnotated ==
  [][\A w \in Workers :
       pc[w] = "busy" /\ pc'[w] = "loop" =>
         LET id == job[w].id
             bound == IF jobs[id].timeout # 0 THEN jobs[id].timeout
                                             ELSE systemConfig[w].job_timeout
             exceeds == Duration(jobs[id].command) > bound
             after == jobs[id].attempts + 1
             ceiling == IF jobs[id].max_retries # 0 THEN jobs[id].max_retries
                                                   ELSE systemConfig[w].max_retries
         IN  /\ exceeds => jobs'[id].state # "completed"
             /\ jobs'[id].state # "completed" =>
                   /\ jobs'[id].error = (IF exceeds THEN "TimedOut" ELSE "Failed")
                   /\ jobs'[id].attempts = after
                   /\ jobs'[id].state = (IF after >= ceiling THEN "dead" ELSE "pending")]_vars

\* A job with timeout 1000 and max_retries 1 ran `sleep 3` once: it is dead
\* with attempts 1 and the timeout annotation.
TimeoutAnnotatedWitness ==
  \E id \in Stored :
    /\ jobs[id].command = "sleep 3"
    /\ jobs[id].timeout = 1000
    /\ jobs[id].state = "dead"
    /\ jobs[id].attempts = 1
    /\ hist[id].execs = 1
    /\ jobs[id].error = "TimedOut"

\* C24: a failure with attempts_after = attempts + 1 at or above the job's
\* retry ceiling leaves the job dead with attempts = attempts_after and the
\* captured error, and every other field, run_at among them, as it was.
DeadLeavesRunAt ==
  [][\A w \in Workers :
       FailStep(w) =>
         LET id == job[w].id
             after == jobs[id].attempts + 1
             ceiling == IF jobs[id].max_retries # 0 THEN jobs[id].max_retries
                                                   ELSE systemConfig[w].max_retries
         IN  after >= ceiling =>
               /\ jobs'[id] = [jobs[id] EXCEPT !.state = "dead",
                                               !.attempts = after,
                                               !.error = jobs'[id].error]
               /\ jobs'[id].error # ""
               /\ jobs'[id].run_at = jobs[id].run_at]_vars

\* A job died on its second failure, after the clock had moved on from the
\* run_at its first failure gave it: it still has that run_at.
DeadLeavesRunAtWitness ==
  \E id \in Stored :
    /\ EnteredFresh(id)
    /\ jobs[id].state = "dead"
    /\ jobs[id].attempts = 2
    /\ hist[id].execs = 2
    /\ jobs[id].error = "Failed"
    /\ jobs[id].run_at < now

\* C25: a successful claim leaves the job processing in the store, and the
\* record handed to the worker is the record as the claim left it.
ClaimReturnsUpdated ==
  [][\A w \in Workers : \A id \in JobIds :
       FetchStep(w, id) =>
         /\ jobs'[id].state = "processing"
         /\ job'[w].state = jobs'[id].state]_vars

\* C23: every job that enters the store by enqueue enters it pending with
\* attempts 0, whatever fields the client put in the job data.
EnqueuedPendingZero ==
  [][\A id \in JobIds :
       id \notin Stored /\ id \in DOMAIN jobs' =>
         jobs'[id].state = "pending" /\ jobs'[id].attempts = 0]_vars

\* C22: a failing job never ends the worker's loop: the step that ends an
\* execution leaves the worker idle in its loop with the outcome written, the
\* job no longer processing.
FailureKeepsLoop ==
  [][\A w \in Workers :
       pc[w] = "busy" /\ pc'[w] # "busy" =>
         /\ pc'[w] = "loop"
         /\ jobs'[job[w].id].state # "processing"]_vars

\* Job id is in processing and no worker process that runs holds it.
Orphaned(id) ==
  /\ id \in Stored
  /\ jobs[id].state = "processing"
  /\ \A w \in Workers : ~(pc[w] \in {"busy", "catch"} /\ job[w].id = id)

\* C26: the death of a worker that holds a job writes nothing to the store,
\* and from then on the job stays as it is, in processing: no worker, the
\* replacement the supervisor forks included, claims it or changes it.
CrashOrphansJob ==
  [][/\ \A w \in Workers :
          pc[w] = "busy" /\ pc'[w] = "crashed" => jobs' = jobs
     /\ \A id \in JobIds :
          Orphaned(id) =>
            /\ id \in DOMAIN jobs'
            /\ jobs'[id] = jobs[id]
            /\ \A w \in Workers : job'[w].id = id => job[w].id = id]_vars

\* A worker died holding a job and was replaced, no other worker was; the
\* replacement now runs another job while the first is still in processing.
CrashOrphansJobWitness ==
  \E id \in JobIds, other \in JobIds, w \in Workers :
    /\ id # other
    /\ Orphaned(id)
    /\ hist[id].state0 = "pending"
    /\ \A v \in Workers : pc[v] # "crashed" /\ (respawned[v] <=> v = w)
    /\ Holds(w, other)

\* The SIGTERM handler of worker w has run and the worker has not ended.
StopDelivered(w) == pc[w] \in {"loop", "busy", "sleep", "catch"} /\ ~running[w]

\* C27: a worker whose stop signal was delivered exits only when it holds
\* no job, and claims no job after the signal.
StoppedExitsIdle ==
  [][\A w \in Workers :
       StopDelivered(w) =>
         /\ pc'[w] = "exited" => pc[w] \in {"loop", "sleep"}
         /\ \A id \in JobIds : ~FetchStep(w, id)]_vars

\* C28: with the workers running, none crashing and the store reachable,
\* every job in the queue is completed or dead in the end, and no job is
\* executed more often than its max_retries.
JobsEventuallyResolved ==
  /\ \A id \in JobIds :
       (id \in Stored) ~> (id \in Stored /\ jobs[id].state \in {"completed", "dead"})
  /\ [](\A id \in Stored : hist[id].execs <= jobs[id].max_retries)

\* The processes that are pool supervisors.
Supervisors == {m \in Starters : starter[m] = "master"}

\* C29: at most one pool supervisor runs at a time: a start that finds the
\* PID file forks nothing and does not become supervisor, and of two starts
\* run at once at most one becomes supervisor.
OneSupervisor ==
  /\ [](Cardinality(Supervisors) <= 1)
  /\ [][\A m \in Starters :
          starter[m] = "idle" /\ pidFile /\ cli'.cmd = "worker start" /\ cli' # cli =>
            /\ starter'[m] = "idle"
            /\ pc' = pc]_vars

====
